---------------------------- MODULE Spec2Model ----------------------------
(***************************************************************************)
(* NextWord: the /next_dist and /step handlers of src/main.py over the     *)
(* HuggingFaceAdapter of src/adapter_hf.py.                                *)
(*                                                                         *)
(* Numbers.  Logits are integers.  The exponential is modelled by the      *)
(* integer power ExpBase^x with ExpBase = 8, taken relative to the         *)
(* smallest logit of the vector (softmax is invariant under that shift),   *)
(* so a weight is 2^(3*(x - min)) and, at temperature 3/2, 2^(2*(x-min)).  *)
(* Probabilities are exact fractions [num, den]; no rounding is modelled.  *)
(* An Optional value is a sequence of length at most one (<<>> is None).   *)
(***************************************************************************)
EXTENDS Integers, Sequences, FiniteSets, TLC

VARIABLES
    adapter,    \* the module global `adapter`: "None" or "loaded"
    request,    \* the HTTP request being served
    scorer,     \* what the Scorer returns for this request's context
    fault,      \* the collaborator call that raises in this request, and what
    response,   \* the HTTP response; status_code 0 while none was sent
    locals,     \* the handler's local variables when it returned
    calls,      \* the adapter methods the handler invoked, in order
    torch_ties, \* the order the installed torch gives to equal values
    served,     \* the calls answered before this one: request and response
    display,    \* a call of make_token_display: its argument and its result
    chose,      \* a call of adapter.choose on its own: its arguments and result
    biased      \* the bias step of forward_last on its own: its inputs and result

vars == <<adapter, request, scorer, fault, response, locals, calls, torch_ties,
          served, display, chose, biased>>

-----------------------------------------------------------------------------
(* Program constants *)

\* main.py
TOP_K_MIN == 5
TOP_K_MAX == 30
MAX_PAYLOAD_SIZE == 50000
NEXT_DIST_TOP_K_LE == 1000
\* HuggingFaceAdapter
CONTEXT_CAP_TOKENS == 512
ADAPTER_TOP_K_MIN == 5
ADAPTER_TOP_K_MAX == 30
SOFTEN_OFFSET == 2

(* Bounds of the model *)

VocabSize == 32

Vocab == 0 .. (VocabSize - 1)

\* ids the tokenizer gives for '\n' and for the end-of-text token
NewlineId == 1
EosId == VocabSize - 2
HotId == VocabSize - 1

None == <<>>
Some(v) == <<v>>
IsNone(o) == o = <<>>
Val(o) == o[1]

Frac(n, d) == [num |-> n, den |-> d]

\* what a method returns: its value, or the exception it raised
Returned(v) == [raised |-> "", value |-> v]
Raised(e) == [raised |-> e, value |-> <<>>]

-----------------------------------------------------------------------------
(* Exact arithmetic on fractions *)

FracLeq(p, q) == p.num * q.den <= q.num * p.den
FracLt(p, q) == p.num * q.den < q.num * p.den
FracEq(p, q) == p.num * q.den = q.num * p.den

\* p + q, on the larger denominator when one divides the other
FracAdd(p, q) ==
    IF p.den % q.den = 0 THEN Frac(p.num + q.num * (p.den \div q.den), p.den)
    ELSE IF q.den % p.den = 0 THEN Frac(p.num * (q.den \div p.den) + q.num, q.den)
    ELSE Frac(p.num * q.den + q.num * p.den, p.den * q.den)

RECURSIVE Pow2(_)
Pow2(n) == IF n <= 0 THEN 1 ELSE 2 * Pow2(n - 1)

RECURSIVE SumOver(_, _)
\* sum of f[i] over the finite set S
SumOver(f, S) ==
    IF S = {} THEN 0
    ELSE LET i == CHOOSE j \in S : TRUE IN f[i] + SumOver(f, S \ {i})

\* the function f as a table of its values, each computed once
Table(f) == f @@ <<>>

MinOf(f) == CHOOSE m \in {f[i] : i \in DOMAIN f} : \A i \in DOMAIN f : m <= f[i]
MaxOf(f) == CHOOSE m \in {f[i] : i \in DOMAIN f} : \A i \in DOMAIN f : m >= f[i]


-----------------------------------------------------------------------------
(* The external collaborators: Tokenizer and Scorer *)

\* A context text is known by its number of characters and by the number of
\* token ids the tokenizer encodes it to.
Text(nchars, ntokens) == [chars |-> nchars, tokens |-> ntokens]

\* tokenizer.encode(text, add_special_tokens=False): the i-th id of the encoding
EncodedId(i) == (7 * i + 3) % VocabSize
encode(text) == Table([i \in 1 .. text.tokens |-> EncodedId(i)])

\* tokenizer.encode('\n', add_special_tokens=False) and tokenizer.eos_token_id
newline_encoded == <<NewlineId>>
eos_token_id == Some(EosId)

\* tokenizer.decode([token_id]): the surface string, as character codes
decode(token_id) ==
    IF token_id = NewlineId THEN <<10>>
    ELSE IF token_id = 0 THEN <<32>>
    ELSE IF token_id = EosId THEN <<60, 124, 62>>
    ELSE <<32, 97 + (token_id % 26)>>

-----------------------------------------------------------------------------
(* make_token_display.  A string is the sequence of its code points. *)

\* str.isspace of one character: general category Zs, or bidirectional class
\* WS, B or S.  The separators U+001C .. U+001F are among them.
PyWhitespace ==
    (9 .. 13) \cup (28 .. 32) \cup {133, 160, 5760} \cup (8192 .. 8202)
    \cup {8232, 8233, 8239, 8287, 12288}

\* unicodedata.category(char) == 'Cc': U+0000 .. U+001F and U+007F .. U+009F
category_Cc(char) == char \in (0 .. 31) \cup (127 .. 159)

\* raw_text.isspace(): at least one character, and all of them whitespace
isspace(raw_text) ==
    /\ raw_text # <<>>
    /\ \A i \in 1 .. Len(raw_text) : raw_text[i] \in PyWhitespace

\* raw_text.count(' ')
count_spaces(raw_text) == Cardinality({i \in 1 .. Len(raw_text) : raw_text[i] = 32})

\* the digit d of a base up to 16 as a character, upper case
DigitChar(d) == IF d < 10 THEN 48 + d ELSE 55 + d

RECURSIVE Decimal(_)
\* f'{n}' for n >= 0
Decimal(n) ==
    IF n < 10 THEN <<DigitChar(n)>> ELSE Append(Decimal(n \div 10), DigitChar(n % 10))

RECURSIVE Hex(_)
\* f'{n:X}' for n >= 0
Hex(n) == IF n < 16 THEN <<DigitChar(n)>> ELSE Append(Hex(n \div 16), DigitChar(n % 16))

RECURSIVE ZeroPad(_, _)
\* the padding of the format width: zeros in front up to `width` characters
ZeroPad(digits, width) ==
    IF Len(digits) >= width THEN digits ELSE ZeroPad(<<48>> \o digits, width)

SpaceSymbol == <<9248>>
TimesSign == <<215>>
NewlineLabel == <<9166, 92, 110>>
TabLabel == <<8677, 92, 116>>
ReturnLabel == <<9229, 92, 114>>

\* f'<U+{code_point:04X}>' inside the white square brackets
CodePointLabel(code_point) ==
    <<10214, 85, 43>> \o ZeroPad(Hex(code_point), 4) \o <<10215>>

\* what the loop appends for one character
display_char(char) ==
    IF category_Cc(char)
    THEN IF char = 10 THEN NewlineLabel
         ELSE IF char = 9 THEN TabLabel
         ELSE IF char = 13 THEN ReturnLabel
         ELSE CodePointLabel(char)
    ELSE IF char = 32 THEN SpaceSymbol
    ELSE <<char>>

RECURSIVE join(_)
\* ''.join(display_chars)
join(display_chars) ==
    IF display_chars = <<>> THEN <<>>
    ELSE Head(display_chars) \o join(Tail(display_chars))

\* a plausible slip: the whitespace branch is taken for ASCII spaces only
make_token_display_spaces_only(raw_text) ==
    IF raw_text = <<>> THEN raw_text
    ELSE IF count_spaces(raw_text) = Len(raw_text)
    THEN IF Len(raw_text) = 1 THEN SpaceSymbol
         ELSE SpaceSymbol \o TimesSign \o Decimal(Len(raw_text))
    ELSE join([i \in 1 .. Len(raw_text) |-> display_char(raw_text[i])])

make_token_display(raw_text) ==
    IF raw_text = <<>> THEN raw_text
    ELSE IF isspace(raw_text)
    THEN LET space_count == count_spaces(raw_text)
         IN  IF space_count = Len(raw_text)
             THEN IF space_count = 1 THEN SpaceSymbol
                  ELSE SpaceSymbol \o TimesSign \o Decimal(space_count)
             ELSE SpaceSymbol \o TimesSign \o Decimal(Len(raw_text))
    ELSE join([i \in 1 .. Len(raw_text) |-> display_char(raw_text[i])])

-----------------------------------------------------------------------------
(* HuggingFaceAdapter.tokenize *)

\* ids[-n:] of Python, for 0 < n <= Len(ids)
LastN(ids, n) == SubSeq(ids, Len(ids) - n + 1, Len(ids))

\* a plausible slip: the first 512 ids are kept instead of the last
tokenize_keeps_head(text) ==
    LET encoded == encode(text)
        ids == IF Len(encoded) > CONTEXT_CAP_TOKENS
               THEN SubSeq(encoded, 1, CONTEXT_CAP_TOKENS)
               ELSE encoded
    IN  [ids |-> ids, tokens |-> Table([i \in 1 .. Len(ids) |-> decode(ids[i])])]

tokenize(text) ==
    LET encoded == encode(text)
        ids == IF Len(encoded) > CONTEXT_CAP_TOKENS
               THEN LastN(encoded, CONTEXT_CAP_TOKENS)
               ELSE encoded
    IN  [ids |-> ids, tokens |-> Table([i \in 1 .. Len(ids) |-> decode(ids[i])])]

-----------------------------------------------------------------------------
(* HuggingFaceAdapter.forward_last *)

\* With ids = [] torch.tensor([ids]) is an empty float tensor of shape (1, 0):
\* the model's embedding rejects it (RuntimeError), and a model that ran would
\* leave outputs.logits with no position for [0, -1, :] to take (IndexError).
EmptyInputErrors == {"RuntimeError", "IndexError"}

\* a plausible slip: only the newline logit is lowered
soften_newline_only(logits, soften_newline_eot, newline_id, eos_id) ==
    IF soften_newline_eot /\ ~IsNone(newline_id)
    THEN [logits EXCEPT ![Val(newline_id)] = @ - SOFTEN_OFFSET]
    ELSE logits

\* if soften_newline_eot: logits[newline_id] -= 2.0 and logits[eos_id] -= 2.0,
\* each only where the id is not None
soften_logits(logits, soften_newline_eot, newline_id, eos_id) ==
    LET after_newline ==
            IF soften_newline_eot /\ ~IsNone(newline_id)
            THEN [logits EXCEPT ![Val(newline_id)] = @ - SOFTEN_OFFSET]
            ELSE logits
        after_eos ==
            IF soften_newline_eot /\ ~IsNone(eos_id)
            THEN [after_newline EXCEPT ![Val(eos_id)] = @ - SOFTEN_OFFSET]
            ELSE after_newline
    IN  after_eos

forward_last(ids, soften_newline_eot, empty_exc) ==
    IF ids = <<>> THEN Raised(empty_exc) ELSE
    LET logits == scorer
        newline_id == IF newline_encoded # <<>> THEN Some(newline_encoded[1]) ELSE None
        eos_id == eos_token_id
    IN  Returned(soften_logits(logits, soften_newline_eot, newline_id, eos_id))

-----------------------------------------------------------------------------
(* softmax, and the order torch gives to equal values *)

One == Frac(1, 1)

\* exp((x - min) / t) for the temperature t, a fraction
ExpRel(d, t) == Pow2((3 * d * t.den) \div t.num)

Weights(logits, t) ==
    LET lo == MinOf(logits)
    IN  Table([i \in DOMAIN logits |-> ExpRel(logits[i] - lo, t)])

\* torch.softmax(logits / t): the probability of every token id
softmax(logits, t) ==
    LET w == Weights(logits, t)
        total == SumOver(w, DOMAIN w)
    IN  Table([i \in DOMAIN logits |-> Frac(w[i], total)])

\* torch.topk and torch.sort leave the order of equal values open: a build
\* returns them by ascending or by descending index.
TieOrders == {"asc", "desc"}

TieBefore(tie, i, j) == IF tie = "asc" THEN i < j ELSE i > j

\* i comes before j in a descending sort of the probabilities p
Before(p, tie, i, j) ==
    \/ FracLt(p[j], p[i])
    \/ FracEq(p[i], p[j]) /\ TieBefore(tie, i, j)

\* the ids of p sorted descending, equal values in the order `tie`
SortedIds(p, tie) ==
    LET rank == Table([i \in DOMAIN p |->
                    1 + Cardinality({j \in DOMAIN p : Before(p, tie, j, i)})])
    IN  Table([r \in 1 .. Cardinality(DOMAIN p) |->
                  CHOOSE i \in DOMAIN p : rank[i] = r])

-----------------------------------------------------------------------------
(* HuggingFaceAdapter.topk *)

Max2(a, b) == IF a >= b THEN a ELSE b
Min2(a, b) == IF a <= b THEN a ELSE b

\* k = max(self.TOP_K_MIN, min(self.TOP_K_MAX, k)) of the adapter
AdapterClamp(k) == Max2(ADAPTER_TOP_K_MIN, Min2(ADAPTER_TOP_K_MAX, k))

\* one entry of a ranking (logprob is the logarithm of prob and is left out).
\* prob is a float: prob holds the exact value and prob_exp the routine that
\* rounded it, here float(torch.exp(topk_log_probs[i]).item()) in float32
TokenInfo(token_id, prob) ==
    LET token_text_raw == decode(token_id)
    IN  [token_id |-> token_id,
         token_text |-> token_text_raw,
         token_text_raw |-> token_text_raw,
         token_text_display |-> make_token_display(token_text_raw),
         prob |-> prob,
         prob_exp |-> "torch.exp"]

\* the token choose returns; its prob is float(math.exp(chosen_logprob)) in
\* double precision in argmax mode and probs[chosen_idx].item() of the
\* softmax in stochastic mode
ChosenToken(token_id, prob, prob_exp) ==
    [TokenInfo(token_id, prob) EXCEPT !.prob_exp = prob_exp]

\* a plausible slip: reverse=True is forgotten and the sort is ascending
sort_by_prob_ascending(result) ==
    LET n == Len(result)
        pos == Table([a \in 1 .. n |->
                  1 + Cardinality({b \in 1 .. n :
                        \/ FracLt(result[b].prob, result[a].prob)
                        \/ FracEq(result[a].prob, result[b].prob) /\ b < a})])
    IN  Table([r \in 1 .. n |-> result[CHOOSE a \in 1 .. n : pos[a] = r]])

\* list.sort(key=prob, reverse=True): descending and stable
SortByProbDesc(result) ==
    LET n == Len(result)
        pos == Table([a \in 1 .. n |->
                  1 + Cardinality({b \in 1 .. n :
                        \/ FracLt(result[a].prob, result[b].prob)
                        \/ FracEq(result[a].prob, result[b].prob) /\ b < a})])
    IN  Table([r \in 1 .. n |-> result[CHOOSE a \in 1 .. n : pos[a] = r]])

\* torch.topk(log_probs, k): the k largest, equal values in the order `tie`;
\* the log-probabilities are compared through the probabilities
torch_topk(probs, k, tie) == SubSeq(SortedIds(probs, tie), 1, k)

topk(logits, k0, tie) ==
    LET k == AdapterClamp(k0)
        probs == softmax(logits, One)
    IN  IF k > Cardinality(DOMAIN logits)
        THEN Raised("RuntimeError")
        ELSE LET topk_ids == torch_topk(probs, k, tie)
                 result == Table([i \in 1 .. k |->
                                    TokenInfo(topk_ids[i], probs[topk_ids[i]])])
             IN  Returned(SortByProbDesc(result))

-----------------------------------------------------------------------------
(* HuggingFaceAdapter.choose *)

\* a plausible slip: the maximum is looked for among the first 30 ids only
torch_argmax_in_window(probs) ==
    CHOOSE i \in DOMAIN probs :
        /\ i < ADAPTER_TOP_K_MAX
        /\ \A j \in DOMAIN probs : j < ADAPTER_TOP_K_MAX => FracLeq(probs[j], probs[i])
        /\ \A j \in DOMAIN probs :
              j < ADAPTER_TOP_K_MAX /\ FracEq(probs[j], probs[i]) => i <= j

\* torch.argmax: the first index of a maximal value
torch_argmax(probs) ==
    CHOOSE i \in DOMAIN probs :
        /\ \A j \in DOMAIN probs : FracLeq(probs[j], probs[i])
        /\ \A j \in DOMAIN probs : FracEq(probs[j], probs[i]) => i <= j

\* temperature if temperature is not None and temperature > 0 else 1.0
EffectiveTemperature(temperature) ==
    IF ~IsNone(temperature) /\ Val(temperature).num > 0 THEN Val(temperature) ELSE One

\* the nucleus filter is applied: top_p is not None and top_p < 1.0
FilterApplies(top_p) == ~IsNone(top_p) /\ FracLt(Val(top_p), One)

\* a plausible slip: the floor sets the last position of the sort, mask[-1]
nucleus_mask_floor_at_end(probs, sorted, top_p) ==
    LET n == Len(sorted)
        cumsum[j \in 1 .. n] ==
            IF j = 1 THEN probs[sorted[1]].num
            ELSE cumsum[j - 1] + probs[sorted[j]].num
        mask == {j \in 1 .. n : FracLeq(Frac(cumsum[j], probs[sorted[1]].den), top_p)}
    IN  IF mask = {} THEN {n} ELSE mask

\* mask = cumsum_probs <= top_p, and mask[0] = True if no entry is set:
\* the positions of the descending sort `sorted` that are kept
NucleusMask(probs, sorted, top_p) ==
    LET n == Len(sorted)
        cumsum[j \in 1 .. n] ==
            IF j = 1 THEN probs[sorted[1]].num
            ELSE cumsum[j - 1] + probs[sorted[j]].num
        mask == {j \in 1 .. n : FracLeq(Frac(cumsum[j], probs[sorted[1]].den), top_p)}
    IN  IF mask = {} THEN {1} ELSE mask

\* the token ids the nucleus filter keeps
NucleusKept(probs, top_p, tie) ==
    LET sorted == SortedIds(probs, tie)
        mask == NucleusMask(probs, sorted, top_p)
    IN  {sorted[j] : j \in mask}

\* filtered_probs / filtered_probs.sum()
Renormalized(probs, kept) ==
    LET total == SumOver([i \in DOMAIN probs |-> probs[i].num], kept)
    IN  Table([i \in DOMAIN probs |-> IF i \in kept THEN Frac(probs[i].num, total)
                                                    ELSE Frac(0, total)])

\* a plausible slip: a missing top_p is taken as the request default 0.95
sampling_dist_default_nucleus(logits, temperature, top_p, tie) ==
    LET probs == softmax(logits, EffectiveTemperature(temperature))
        p == IF IsNone(top_p) THEN Frac(19, 20) ELSE Val(top_p)
    IN  IF FracLt(p, One)
        THEN Renormalized(probs, NucleusKept(probs, p, tie))
        ELSE probs

\* the distribution torch.multinomial draws from in stochastic mode
SamplingDist(logits, temperature, top_p, tie) ==
    LET probs == softmax(logits, EffectiveTemperature(temperature))
    IN  IF FilterApplies(top_p)
        THEN Renormalized(probs, NucleusKept(probs, Val(top_p), tie))
        ELSE probs

\* the indices torch.multinomial can return: those of non-zero probability
Draws(dist) == {i \in DOMAIN dist : dist[i].num > 0}

\* where the float32 result of torch.exp lies against the double result of
\* math.exp for the same log-probability: the two agree up to rounding only
ExpRoundings == {"below", "above"}

\* the orders torch.topk and torch.sort of one installation give, and the
\* rounding of its torch.exp
TorchBuilds == [topk : TieOrders, sort : TieOrders, exp : ExpRoundings]

\* the orders torch.sort may give in one call of choose
ChooseTies(mode, top_p) ==
    IF mode = "stochastic" /\ FilterApplies(top_p) THEN TieOrders ELSE {"asc"}

\* the probabilities choose takes the token from: log_probs for argmax, the
\* scaled and filtered probs for stochastic
choose_probs(logits, mode, temperature, top_p, tie) ==
    IF mode = "argmax" THEN softmax(logits, One)
    ELSE IF mode = "stochastic" THEN SamplingDist(logits, temperature, top_p, tie)
    ELSE <<>>

\* the draws of one call of choose; only stochastic mode draws
ChooseDraws(mode, probs) == IF mode = "stochastic" THEN Draws(probs) ELSE {0}

\* a plausible slip: any other mode is served as argmax
choose_from_falls_back(mode, probs, draw) ==
    IF mode = "stochastic"
    THEN Returned(ChosenToken(draw, probs[draw], "torch.softmax"))
    ELSE LET all == IF probs = <<>> THEN [i \in Vocab |-> One] ELSE probs
             chosen_idx == torch_argmax(all)
         IN  Returned(ChosenToken(chosen_idx, all[chosen_idx], "math.exp"))

\* the token of choose, given its probabilities and the index drawn
choose_from(mode, probs, draw) ==
    IF mode = "argmax"
    THEN LET chosen_idx == torch_argmax(probs)
         IN  Returned(ChosenToken(chosen_idx, probs[chosen_idx], "math.exp"))
    ELSE IF mode = "stochastic"
    THEN Returned(ChosenToken(draw, probs[draw], "torch.softmax"))
    ELSE Raised("ValueError")

choose(logits, mode, k0, temperature, top_p, tie, draw) ==
    LET k == AdapterClamp(k0)
    IN  choose_from(mode, choose_probs(logits, mode, temperature, top_p, tie), draw)

-----------------------------------------------------------------------------
(* main.py: request models, responses *)

\* a plausible slip: mode is declared str, and any mode reaches the handler
StepRequestModel_any_mode(req) ==
    /\ req.context_text.chars <= MAX_PAYLOAD_SIZE
    /\ req.top_k >= 1
    /\ IsNone(req.temperature)
         \/ (FracLeq(Frac(1, 5), Val(req.temperature))
               /\ FracLeq(Val(req.temperature), Frac(3, 2)))
    /\ IsNone(req.top_p)
         \/ (FracLeq(Frac(7, 10), Val(req.top_p)) /\ FracLeq(Val(req.top_p), One))

\* StepRequestModel: the Field constraints pydantic checks before the handler runs
StepRequestModel(req) ==
    /\ req.context_text.chars <= MAX_PAYLOAD_SIZE
    /\ req.top_k >= 1
    /\ req.mode \in {"argmax", "stochastic"}
    /\ IsNone(req.temperature)
         \/ (FracLeq(Frac(1, 5), Val(req.temperature))
               /\ FracLeq(Val(req.temperature), Frac(3, 2)))
    /\ IsNone(req.top_p)
         \/ (FracLeq(Frac(7, 10), Val(req.top_p)) /\ FracLeq(Val(req.top_p), One))

\* NextDistRequestModel
NextDistRequestModel(req) ==
    /\ req.context_text.chars <= MAX_PAYLOAD_SIZE
    /\ req.top_k >= 1
    /\ req.top_k <= NEXT_DIST_TOP_K_LE

NoResponse == [status_code |-> 0]

JSONResponse(status_code, content) == [status_code |-> status_code, content |-> content]

ErrorContent(message, hint) == [status |-> "error", message |-> message, hint |-> hint]

\* FastAPI's answer to a request its model rejects: the handler is not called
ValidationErrorResponse == JSONResponse(422, [detail |-> "validation error"])

NoLocals ==
    [context_ids |-> <<>>, logits |-> <<>>, topk |-> <<>>, chosen |-> None,
     probs |-> <<>>, tie_k |-> "asc", tie_s |-> "asc"]

Outcome(resp, loc, log) == [response |-> resp, locals |-> loc, calls |-> log]

\* a plausible slip: the lower bound of the clamp is forgotten
clamp_without_floor(k) == Min2(TOP_K_MAX, k)

\* clamped_top_k = max(TOP_K_MIN, min(TOP_K_MAX, request.top_k))
Clamp(k) == Max2(TOP_K_MIN, Min2(TOP_K_MAX, k))

\* TokenInfoModel(**token), ChosenTokenModel(**chosen): the declared fields
TokenInfoModel(token) ==
    [token_id |-> token.token_id, token_text |-> token.token_text,
     prob |-> token.prob, prob_exp |-> token.prob_exp]

\* a plausible slip: the display label is appended
append_text_display(chosen) == chosen.token_text_display

\* append_text = chosen.get("token_text_raw", chosen["token_text"])
append_text_of(chosen) ==
    IF "token_text_raw" \in DOMAIN chosen THEN chosen.token_text_raw
    ELSE chosen.token_text

\* sum(token["prob"] for token in topk)
SumProb(ranking) ==
    LET acc[n \in 0 .. Len(ranking)] ==
            IF n = 0 THEN Frac(0, 1) ELSE FracAdd(acc[n - 1], ranking[n].prob)
    IN  acc[Len(ranking)]

\* {"id": context_ids[-1] if context_ids else None, "text": ...}
LastToken(tok) ==
    [id |-> IF tok.ids # <<>> THEN Some(tok.ids[Len(tok.ids)]) ELSE None,
     text |-> IF tok.tokens # <<>> THEN Some(tok.tokens[Len(tok.tokens)]) ELSE None]

\* a plausible slip: only the head of the list is compared with the chosen token
chosen_is_head(ranking, chosen) ==
    ranking # <<>> /\ ranking[1].token_id = chosen.token_id

\* any(t["token_id"] == chosen["token_id"] for t in topk)
ChosenInTopk(ranking, chosen) ==
    \E i \in 1 .. Len(ranking) : ranking[i].token_id = chosen.token_id

\* a plausible slip: the chosen token is never inserted
merge_never_inserts(ranking, chosen) == ranking

\* a plausible slip: the chosen token is inserted and no entry is dropped
merge_keeps_last(ranking, chosen) ==
    IF ~ChosenInTopk(ranking, chosen) THEN <<chosen>> \o ranking ELSE ranking

\* if not chosen_in_topk: topk = [chosen] + topk[:-1]
merge(ranking, chosen) ==
    IF ~ChosenInTopk(ranking, chosen)
    THEN <<chosen>> \o SubSeq(ranking, 1, Len(ranking) - 1)
    ELSE ranking

-----------------------------------------------------------------------------
(* main.py: the handlers *)

NoFault == [at |-> "", exc |-> ""]

NotInitialized ==
    JSONResponse(500, ErrorContent("Adapter not initialized",
                                   "Server startup may have failed"))

TopKNotPositive ==
    JSONResponse(400, ErrorContent("top_k must be a positive integer",
        "Provide a top_k value between 1 and 30 (will be clamped to [5, 30])"))

InputTooLarge ==
    JSONResponse(400, ErrorContent("Input too large (max 50000 characters)",
                                   "Reduce the size of your context_text input"))

\* except ValueError: 400; except Exception: 500
Caught(exc) ==
    IF exc = "ValueError"
    THEN JSONResponse(400, ErrorContent(exc, "Check your input parameters"))
    ELSE JSONResponse(500, ErrorContent(exc, "Internal server error occurred"))

ModelInfo == [provider |-> "hf-local", vocab_size |-> VocabSize]

\* what the handler holds once topk returned: it goes on to choose
Going(clamped_top_k, tokenize_result, logits, ranking, loc) ==
    [done |-> FALSE, clamped_top_k |-> clamped_top_k,
     tokenize_result |-> tokenize_result, logits |-> logits,
     ranking |-> ranking, locals |-> loc]

\* a plausible slip: a forward_last that failed is invoked once more before
\* the handler gives up
gone_after_retry(outcome) ==
    [done |-> TRUE,
     outcome |-> [outcome EXCEPT
                    !.calls = IF Len(@) = 2 THEN Append(@, "forward_last") ELSE @]]

\* the handler returned early with this outcome
Gone(outcome) == [done |-> TRUE, outcome |-> outcome]

\* the handler up to and including adapter.topk, common to both endpoints;
\* tie_k is the order torch.topk gives to equal values in this call
handler_front(req, soften, tie_k, empty_exc) ==
    IF adapter = "None" THEN Gone(Outcome(NotInitialized, NoLocals, <<>>))
    ELSE IF req.top_k < 1 THEN Gone(Outcome(TopKNotPositive, NoLocals, <<>>))
    ELSE IF req.context_text.chars > MAX_PAYLOAD_SIZE
    THEN Gone(Outcome(InputTooLarge, NoLocals, <<>>))
    ELSE IF fault.at = "tokenize"
    THEN Gone(Outcome(Caught(fault.exc), NoLocals, <<"tokenize">>))
    ELSE
    LET clamped_top_k == Clamp(req.top_k)
        tokenize_result == tokenize(req.context_text)
        context_ids == tokenize_result.ids
        loc1 == [NoLocals EXCEPT !.context_ids = context_ids, !.tie_k = tie_k]
    IN  IF fault.at = "forward_last"
        THEN Gone(Outcome(Caught(fault.exc), loc1, <<"tokenize", "forward_last">>))
        ELSE
        LET forwarded == forward_last(context_ids, soften, empty_exc)
        IN  IF forwarded.raised # ""
            THEN Gone(Outcome(Caught(forwarded.raised), loc1,
                              <<"tokenize", "forward_last">>))
            ELSE
            LET logits == forwarded.value
                ranked == topk(logits, clamped_top_k, tie_k)
                loc2 == [loc1 EXCEPT !.logits = logits]
                log == <<"tokenize", "forward_last", "topk">>
            IN  IF ranked.raised # ""
                THEN Gone(Outcome(Caught(ranked.raised), loc2, log))
                ELSE Going(clamped_top_k, tokenize_result, logits, ranked.value,
                           [loc2 EXCEPT !.topk = ranked.value])

\* next_dist, after the request model accepted the request
next_dist_body(req, tie_k, empty_exc) ==
    LET front == handler_front(req, FALSE, tie_k, empty_exc)
    IN  IF front.done THEN front.outcome
        ELSE
        LET content ==
                [context_len_tokens |-> Len(front.tokenize_result.ids),
                 topk |-> Table([i \in 1 .. Len(front.ranking) |->
                                   TokenInfoModel(front.ranking[i])]),
                 coverage_topk |-> SumProb(front.ranking),
                 last_token |-> LastToken(front.tokenize_result),
                 model_info |-> ModelInfo,
                 contract_version |-> "v1"]
        IN  Outcome(JSONResponse(200, content), front.locals,
                    <<"tokenize", "forward_last", "topk">>)

\* step from adapter.choose on: `front` is what the handler holds after topk,
\* `picked` what adapter.choose returned
step_back(req, front, probs, picked, tie_s) ==
    LET log == <<"tokenize", "forward_last", "topk", "choose">>
        loc3 == [front.locals EXCEPT !.tie_s = tie_s, !.probs = probs]
    IN  IF picked.raised # ""
        THEN Outcome(Caught(picked.raised), loc3, log)
        ELSE
        LET chosen == picked.value
            used_top_k == front.clamped_top_k
            ranking == merge(front.ranking, chosen)
            content ==
                [context_len_tokens |-> Len(front.tokenize_result.ids),
                 topk |-> Table([i \in 1 .. Len(ranking) |-> TokenInfoModel(ranking[i])]),
                 coverage_topk |-> SumProb(ranking),
                 last_token |-> LastToken(front.tokenize_result),
                 model_info |-> ModelInfo,
                 contract_version |-> "v1",
                 chosen |-> TokenInfoModel(chosen),
                 append_text |-> append_text_of(chosen),
                 used_top_k |-> used_top_k]
        IN  Outcome(JSONResponse(200, content),
                    [loc3 EXCEPT !.chosen = Some(chosen)], log)

\* temperature=request.temperature if request.mode == "stochastic" else None
IfStochastic(req, v) == IF req.mode = "stochastic" THEN v ELSE None

-----------------------------------------------------------------------------
(* The requests and the Scorer outputs the model draws from *)

EmptyText == Text(0, 0)
ShortText == Text(24, 5)
Texts ==
    {EmptyText, ShortText, Text(2400, 512), Text(2405, 513), Text(9000, 2000),
     Text(50000, 9000), Text(50001, 9000), Text(60000, 11000)}

Request(endpoint, text, top_k, mode, temperature, top_p, soften) ==
    [endpoint |-> endpoint, context_text |-> text, top_k |-> top_k, mode |-> mode,
     temperature |-> temperature, top_p |-> top_p, soften_newline_eot |-> soften]

\* a /next_dist request carries context_text and top_k only
NextDistRequest(text, top_k) ==
    Request("next_dist", text, top_k, "", None, None, FALSE)

Temperatures == {None, Some(Frac(3, 2))}
TopPs == {None, Some(Frac(7, 10)), Some(One)}
TopKs == {3, 10, 50}

StepRequests ==
    \* the selection policies, on a short context
    {Request("step", ShortText, k, "argmax", None, None, s) :
        k \in TopKs, s \in BOOLEAN}
    \cup {Request("step", ShortText, k, "stochastic", t, p, s) :
            k \in TopKs, t \in Temperatures, p \in TopPs, s \in BOOLEAN}
    \* argmax with the sampling parameters given
    \cup {Request("step", ShortText, k, "argmax", Some(Frac(3, 2)), Some(Frac(7, 10)),
                  FALSE) : k \in TopKs}
    \* the contexts and the values of top_k
    \cup {Request("step", text, 10, "argmax", None, None, FALSE) : text \in Texts}
    \cup {Request("step", ShortText, k, "argmax", None, None, FALSE) :
            k \in {-1, 0, 1, 5, 30, 31, 1001}}
    \* values the request model rejects
    \cup {Request("step", ShortText, 10, "beam", None, None, FALSE),
          Request("step", ShortText, 10, "stochastic", Some(Frac(2, 1)), None, FALSE),
          Request("step", ShortText, 10, "stochastic", None, Some(Frac(1, 2)), FALSE)}

NextDistRequests ==
    {NextDistRequest(text, 10) : text \in Texts}
    \cup {NextDistRequest(ShortText, k) :
            k \in TopKs \cup {-1, 0, 1, 5, 30, 31, 1000, 1001}}

Requests == StepRequests \cup NextDistRequests

\* the logits of the Scorer: 2 everywhere but at three token ids
ScorerOutputs ==
    {[i \in Vocab |-> IF i = NewlineId THEN a
                      ELSE IF i = EosId THEN b
                      ELSE IF i = HotId THEN c ELSE 2] :
        a \in {2, 3}, b \in {2, 3}, c \in {2, 3, 5}}

\* a collaborator may raise in a call; the model lets it on two requests
Faults(req) ==
    {NoFault}
    \cup IF req \in {Request("step", ShortText, 10, "argmax", None, None, FALSE),
                    NextDistRequest(ShortText, 10)}
         THEN [at : {"tokenize", "forward_last"}, exc : {"ValueError", "RuntimeError"}]
         ELSE {}

-----------------------------------------------------------------------------
(* The state machine *)

\* no call of make_token_display is under way
NoDisplay == [raw_text |-> <<>>, returned |-> FALSE, label |-> <<>>]

\* the arguments of a call of adapter.choose besides the logits
ChooseArgs(mode, k, temperature, top_p) ==
    [mode |-> mode, k |-> k, temperature |-> temperature, top_p |-> top_p]

\* the bias step of forward_last is not under way
NoBias == [soften_newline_eot |-> FALSE, newline_id |-> None, eos_id |-> None,
           returned |-> FALSE, logits |-> <<>>]

\* no call of adapter.choose on its own is under way
NoChoice == [args |-> ChooseArgs("", 0, None, None), returned |-> FALSE,
             result |-> Raised("")]

Init ==
    /\ adapter = "None"
    /\ request \in Requests
    /\ scorer \in ScorerOutputs
    /\ fault \in Faults(request)
    /\ response = NoResponse
    /\ locals = NoLocals
    /\ calls = <<>>
    /\ torch_ties \in TorchBuilds
    /\ served = <<>>
    /\ display = NoDisplay
    /\ chose = NoChoice
    /\ biased = NoBias

Pending == response = NoResponse

\* the exceptions the Scorer may raise for this request's context: a choice
\* only where the handler reaches forward_last with an empty id sequence
EmptyInputChoices(req) ==
    IF adapter = "loaded" /\ req.context_text.tokens = 0 /\ fault = NoFault
    THEN EmptyInputErrors
    ELSE {"IndexError"}

\* startup_event: the adapter is loaded
startup_event ==
    /\ adapter = "None"
    /\ adapter' = "loaded"
    /\ UNCHANGED <<request, scorer, fault, response, locals, calls, torch_ties,
                   served, display, chose, biased>>

\* a plausible slip: forward_last hands out a tensor the Scorer keeps, and the
\* in-place bias of a call stays in it for the calls that follow
scorer_keeps_returned_logits(loc) ==
    IF loc.logits # <<>> THEN loc.logits ELSE scorer

\* outputs.logits is a new tensor in every forward pass: what a call does to
\* its logits (the in-place bias of forward_last) leaves the Scorer as it was
scorer_after(loc) == scorer

\* the handler returns: nothing but the response leaves the call
Answer(outcome) ==
    /\ response' = outcome.response
    /\ locals' = outcome.locals
    /\ calls' = outcome.calls
    /\ scorer' = scorer_after(outcome.locals)
    /\ UNCHANGED <<adapter, request, fault, torch_ties, served, display, chose,
                   biased>>

\* POST /next_dist
next_dist ==
    /\ Pending
    /\ request.endpoint = "next_dist"
    /\ IF ~NextDistRequestModel(request)
       THEN Answer(Outcome(ValidationErrorResponse, NoLocals, <<>>))
       ELSE \E tie_k \in {torch_ties.topk} :
            \E empty_exc \in EmptyInputChoices(request) :
                Answer(next_dist_body(request, tie_k, empty_exc))

\* POST /step
step ==
    /\ Pending
    /\ request.endpoint = "step"
    /\ IF ~StepRequestModel(request)
       THEN Answer(Outcome(ValidationErrorResponse, NoLocals, <<>>))
       ELSE \E tie_k \in {torch_ties.topk} :
            \E empty_exc \in EmptyInputChoices(request) :
            \E front \in {handler_front(request, request.soften_newline_eot, tie_k,
                                        empty_exc)} :
                IF front.done THEN Answer(front.outcome)
                ELSE
                \E tie_s \in ChooseTies(request.mode, request.top_p)
                                \cap {IF FilterApplies(request.top_p)
                                      THEN torch_ties.sort ELSE "asc"} :
                \E probs \in {choose_probs(front.logits, request.mode,
                                           IfStochastic(request, request.temperature),
                                           IfStochastic(request, request.top_p), tie_s)} :
                \E draw \in ChooseDraws(request.mode, probs) :
                    Answer(step_back(request, front, probs,
                                     choose_from(request.mode, probs, draw), tie_s))

Next == startup_event \/ next_dist \/ step

Spec == Init /\ [][Next]_vars

-----------------------------------------------------------------------------
(* make_token_display on its own: a pure function of its argument *)

\* the longest string of the enumeration
MaxLen == 3

\* space, newline, tab, carriage return, U+0001, U+001F (a separator that
\* str.isspace accepts), the no-break space, the letter a
Chars == {32, 10, 9, 13, 1, 31, 160, 97}

RECURSIVE Strings(_)
\* the strings over Chars of at most n characters
Strings(n) ==
    IF n = 0 THEN {<<>>}
    ELSE LET shorter == Strings(n - 1)
         IN  shorter \cup {Append(t, c) : t \in shorter, c \in Chars}

\* runs long enough for a count of two digits, and a control character whose
\* code point has two hex digits
LongTexts ==
    {[i \in 1 .. 12 |-> 32], [i \in 1 .. 11 |-> 10], <<32, 159, 97>>, <<127>>}

RawTexts == Strings(MaxLen) \cup LongTexts

FormattingInit ==
    /\ adapter = "None"
    /\ request = NextDistRequest(EmptyText, 10)
    /\ scorer = [i \in Vocab |-> 2]
    /\ fault = NoFault
    /\ response = NoResponse
    /\ locals = NoLocals
    /\ calls = <<>>
    /\ torch_ties = [topk |-> "asc", sort |-> "asc"]
    /\ served = <<>>
    /\ display \in {[NoDisplay EXCEPT !.raw_text = raw_text] : raw_text \in RawTexts}
    /\ chose = NoChoice
    /\ biased = NoBias

\* make_token_display(raw_text) returns
token_display ==
    /\ ~display.returned
    /\ display' = [display EXCEPT !.returned = TRUE,
                                  !.label = make_token_display(display.raw_text)]
    /\ UNCHANGED <<adapter, request, scorer, fault, response, locals, calls,
                   torch_ties, served, chose, biased>>

Formatting == FormattingInit /\ [][token_display]_vars

-----------------------------------------------------------------------------
(* The server after startup, answering one call after another.  The handlers  *)
(* are `async def` without an await: each runs to its return before the      *)
(* event loop takes the next call, so calls that arrive together are served  *)
(* in some order.                                                            *)

\* the number of calls answered before the last one
MaxCalls == 2

\* /next_dist and argmax /step requests, with and without the logit bias
ServingRequests ==
    {NextDistRequest(ShortText, 10),
     NextDistRequest(Text(9, 2), 50),
     Request("step", ShortText, 10, "argmax", None, None, FALSE),
     Request("step", ShortText, 10, "argmax", None, None, TRUE),
     Request("step", Text(9, 2), 50, "argmax", None, None, TRUE)}

\* Scorer outputs in which the bias changes the rank of the newline token
ServingScorers == {l \in ScorerOutputs : l[NewlineId] = 3 /\ l[EosId] = 2}

ServingInit ==
    /\ adapter = "loaded"
    /\ request \in ServingRequests
    /\ scorer \in ServingScorers
    /\ fault = NoFault
    /\ response = NoResponse
    /\ locals = NoLocals
    /\ calls = <<>>
    /\ torch_ties \in {b \in TorchBuilds : b.sort = "asc"}
    /\ served = <<>>
    /\ display = NoDisplay
    /\ chose = NoChoice
    /\ biased = NoBias

\* the call that was answered
ThisCall == [request |-> request, response |-> response]

\* the event loop takes the next request
next_call ==
    /\ ~Pending
    /\ Len(served) < MaxCalls
    /\ served' = Append(served, ThisCall)
    /\ request' \in ServingRequests
    /\ response' = NoResponse
    /\ locals' = NoLocals
    /\ calls' = <<>>
    /\ UNCHANGED <<adapter, scorer, fault, torch_ties, display, chose, biased>>

ServingNext == next_dist \/ step \/ next_call

Serving == ServingInit /\ [][ServingNext]_vars

-----------------------------------------------------------------------------
(* adapter.choose on its own, called with any mode *)

Modes == {"argmax", "stochastic", "beam", "greedy", ""}

ChooseCalls ==
    {ChooseArgs(mode, k, t, p) :
        mode \in Modes, k \in {3, 10}, t \in Temperatures, p \in TopPs}

ChoosingInit ==
    /\ adapter = "loaded"
    /\ request = NextDistRequest(EmptyText, 10)
    /\ scorer \in ServingScorers
    /\ fault = NoFault
    /\ response = NoResponse
    /\ locals = NoLocals
    /\ calls = <<>>
    /\ torch_ties \in TorchBuilds
    /\ served = <<>>
    /\ display = NoDisplay
    /\ chose \in {[NoChoice EXCEPT !.args = args] : args \in ChooseCalls}
    /\ biased = NoBias

\* adapter.choose(logits, mode, k, temperature, top_p) returns or raises
adapter_choose ==
    /\ ~chose.returned
    /\ LET args == chose.args
       IN  \E tie_s \in ChooseTies(args.mode, args.top_p)
                        \cap {IF FilterApplies(args.top_p) THEN torch_ties.sort ELSE "asc"} :
           \E draw \in ChooseDraws(args.mode,
                                   choose_probs(scorer, args.mode, args.temperature,
                                                args.top_p, tie_s)) :
               chose' = [chose EXCEPT
                           !.returned = TRUE,
                           !.result = choose(scorer, args.mode, args.k, args.temperature,
                                             args.top_p, tie_s, draw)]
    /\ UNCHANGED <<adapter, request, scorer, fault, response, locals, calls,
                   torch_ties, served, display, biased>>

Choosing == ChoosingInit /\ [][adapter_choose]_vars

-----------------------------------------------------------------------------
(* One call from the request to its response: requests the request model
   rejects, collaborators that raise, and calls that succeed *)

HandlingRequests ==
    {NextDistRequest(ShortText, 10), NextDistRequest(ShortText, 0),
     NextDistRequest(EmptyText, 10),
     Request("step", ShortText, 10, "argmax", None, None, FALSE),
     Request("step", ShortText, 3, "stochastic", None, Some(Frac(7, 10)), TRUE),
     Request("step", ShortText, 10, "beam", None, None, FALSE),
     Request("step", Text(50001, 9000), 10, "argmax", None, None, FALSE)}

HandlingInit ==
    /\ adapter = "loaded"
    /\ request \in HandlingRequests
    /\ scorer \in ScorerOutputs
    /\ fault \in Faults(request)
    /\ response = NoResponse
    /\ locals = NoLocals
    /\ calls = <<>>
    /\ torch_ties \in TorchBuilds
    /\ served = <<>>
    /\ display = NoDisplay
    /\ chose = NoChoice
    /\ biased = NoBias

HandlingNext == next_dist \/ step

\* The server runs the handler of every request it received: weak fairness
\* of the handlers, WF_vars(HandlingNext), with ENABLED <<HandlingNext>>_vars
\* written out as Pending, the guard the two handlers share.
HandlersRun == []<>(~Pending) \/ []<><<HandlingNext>>_vars

Handling == HandlingInit /\ [][HandlingNext]_vars /\ HandlersRun

-----------------------------------------------------------------------------
(* The bias of forward_last: in the handlers, and on its own for tokenizers
   that leave the newline id or the end-of-text id undefined *)

SofteningRequests ==
    {NextDistRequest(ShortText, 10)}
    \cup {Request("step", ShortText, 10, "argmax", None, None, s) : s \in BOOLEAN}
    \cup {Request("step", ShortText, 10, "stochastic", None, Some(Frac(7, 10)), TRUE)}

\* newline_encoded[0] if newline_encoded else None, and tokenizer.eos_token_id
BiasCalls ==
    {[NoBias EXCEPT !.soften_newline_eot = s, !.newline_id = n, !.eos_id = e] :
        s \in BOOLEAN, n \in {None, Some(NewlineId)}, e \in {None, Some(EosId)}}

SofteningInit ==
    /\ adapter = "loaded"
    /\ request \in SofteningRequests
    /\ scorer \in ScorerOutputs
    /\ fault = NoFault
    /\ response = NoResponse
    /\ locals = NoLocals
    /\ calls = <<>>
    /\ torch_ties \in {b \in TorchBuilds : b.sort = "asc" /\ b.exp = "below"}
    /\ served = <<>>
    /\ display = NoDisplay
    /\ chose = NoChoice
    /\ biased \in BiasCalls

\* lines 151-165 of forward_last on the Scorer's output
bias_step ==
    /\ ~biased.returned
    /\ biased' = [biased EXCEPT
                    !.returned = TRUE,
                    !.logits = soften_logits(scorer, biased.soften_newline_eot,
                                             biased.newline_id, biased.eos_id)]
    /\ UNCHANGED <<adapter, request, scorer, fault, response, locals, calls,
                   torch_ties, served, display, chose>>

SofteningNext == next_dist \/ step \/ bias_step

Softening == SofteningInit /\ [][SofteningNext]_vars

-----------------------------------------------------------------------------
(* What the claims speak of *)

Answered == response # NoResponse
Success == response.status_code = 200
StepSuccess == Success /\ request.endpoint = "step"

TokenIds(ranking) == {ranking[i].token_id : i \in 1 .. Len(ranking)}

\* the merge of step inserted the chosen token
MergeFired ==
    /\ StepSuccess
    /\ response.content.chosen.token_id \notin TokenIds(locals.topk)

-----------------------------------------------------------------------------
\* C1: in every successful /step response, in either mode, the token id of
\* the chosen token is among the token ids of the returned ranking.
C1_ChosenInRanking ==
    StepSuccess =>
        response.content.chosen.token_id \in TokenIds(response.content.topk)

\* a stochastic step whose drawn token was not in the top-k and was merged in
C1_Witness ==
    /\ MergeFired
    /\ request.mode = "stochastic"
    /\ response.content.chosen.token_id \in TokenIds(response.content.topk)

\* C2: in every successful /step response used_top_k is max(5, min(30, top_k))
\* and the ranking has exactly used_top_k entries, merged or not; the list the
\* adapter returned for the clamped value has that length too.
C2_UsedTopK ==
    StepSuccess =>
        LET k == request.top_k
            expected == IF k < 5 THEN 5 ELSE IF k > 30 THEN 30 ELSE k
        IN  /\ response.content.used_top_k = expected
            /\ Len(response.content.topk) = expected
            /\ Len(locals.topk) = expected

\* top_k = 50 gave used_top_k = 30 and 30 entries after a merge
C2_Witness ==
    /\ MergeFired
    /\ request.top_k = 50
    /\ response.content.used_top_k = 30
    /\ Len(response.content.topk) = 30

-----------------------------------------------------------------------------
\* a successful stochastic step in which the nucleus filter was applied
NucleusStep ==
    /\ StepSuccess
    /\ request.mode = "stochastic"
    /\ FilterApplies(request.top_p)

\* the token ids the filter kept: those left with a non-zero probability
KeptIds == {i \in DOMAIN locals.probs : locals.probs[i].num > 0}

\* torch.softmax(logits / temperature) of the call, before the filter
ScaledProbs == softmax(locals.logits, EffectiveTemperature(request.temperature))

\* the cumulative probability, before renormalization, of the ids in S
Mass(p, S) == Frac(SumOver([i \in DOMAIN p |-> p[i].num], S), p[CHOOSE i \in DOMAIN p : TRUE].den)

\* C3: with top_p < 1.0 the kept set is the smallest prefix of the descending
\* sort whose cumulative probability is >= top_p: no token outside it is more
\* probable than one inside, its mass reaches top_p, and without its least
\* probable token the mass is below top_p.
C3_SmallestPrefixReachingTopP ==
    NucleusStep =>
        LET p == ScaledProbs
            kept == KeptIds
            top_p == Val(request.top_p)
        IN  /\ \A i \in kept : \A j \in DOMAIN p \ kept : FracLeq(p[j], p[i])
            /\ FracLeq(top_p, Mass(p, kept))
            /\ \A i \in kept : FracLt(Mass(p, kept \ {i}), top_p)

\* C4: coverage_topk is the sum of prob over the returned ranking and lies in
\* (0, 1], also when a stochastically chosen token was merged into the ranking.
C4_CoverageInUnitInterval ==
    Success =>
        LET coverage == response.content.coverage_topk
        IN  /\ coverage = SumProb(response.content.topk)
            /\ FracLt(Frac(0, 1), coverage)
            /\ FracLeq(coverage, One)

\* C5: in argmax mode the chosen token id is the first index at which the
\* logits are maximal over the whole vocabulary, whatever top_k, temperature
\* and top_p the request gave.
C5_ArgmaxOverVocabulary ==
    StepSuccess /\ request.mode = "argmax" =>
        LET chosen_id == response.content.chosen.token_id
        IN  /\ \A j \in Vocab : locals.logits[j] <= locals.logits[chosen_id]
            /\ \A j \in Vocab :
                  locals.logits[j] = locals.logits[chosen_id] => chosen_id <= j

\* argmax picked a token id outside the first 30, with top_k = 3 and the
\* sampling parameters given in the request
C5_Witness ==
    /\ StepSuccess
    /\ request.mode = "argmax"
    /\ request.top_k = 3
    /\ ~IsNone(request.temperature)
    /\ ~IsNone(request.top_p)
    /\ response.content.chosen.token_id = HotId
    /\ \A j \in Vocab \ {HotId} : locals.logits[j] < locals.logits[HotId]

-----------------------------------------------------------------------------
\* the request fails input validation: top_k < 1, a context_text of more than
\* 50,000 characters, or (for /step) a mode other than argmax and stochastic
FailsValidation ==
    \/ request.top_k < 1
    \/ request.context_text.chars > 50000
    \/ request.endpoint = "step" /\ request.mode \notin {"argmax", "stochastic"}

InCalls(method) == \E i \in 1 .. Len(calls) : calls[i] = method

\* C6: a request that fails input validation is answered with an error, and
\* neither forward_last nor topk nor choose was invoked in that call.
C6_InvalidNeverReachesScorer ==
    Answered /\ FailsValidation =>
        /\ response.status_code >= 400
        /\ ~InCalls("forward_last")
        /\ ~InCalls("topk")
        /\ ~InCalls("choose")

\* a /step request with an unsupported mode was answered, the adapter loaded
C6_Witness ==
    /\ Answered
    /\ adapter = "loaded"
    /\ request.endpoint = "step"
    /\ request.mode = "beam"
    /\ response.status_code >= 400
    /\ calls = <<>>

\* C7: a /step request whose context_text exceeds 50,000 characters is
\* answered with status 400 and a body with status = "error", a message and
\* a hint.
C7_OversizedContextIs400 ==
    (/\ Answered
     /\ request.endpoint = "step"
     /\ request.context_text.chars > 50000) =>
        /\ response.status_code = 400
        /\ {"status", "message", "hint"} \subseteq DOMAIN response.content
        /\ response.content.status = "error"

\* C8: tokenize returns the last min(n, 512) ids of the n encoded ids in their
\* order, and context_len_tokens = min(n, 512) <= 512.
C8_LastIdsKept ==
    Success =>
        LET n == request.context_text.tokens
            m == IF n < 512 THEN n ELSE 512
        IN  /\ Len(locals.context_ids) = m
            /\ \A j \in 1 .. m : locals.context_ids[j] = EncodedId(n - m + j)
            /\ response.content.context_len_tokens = m
            /\ response.content.context_len_tokens <= 512

\* a context of 2000 token ids was cut to its last 512
C8_Witness ==
    /\ Success
    /\ request.context_text.tokens = 2000
    /\ Len(locals.context_ids) = 512
    /\ locals.context_ids[1] = EncodedId(1489)
    /\ locals.context_ids[512] = EncodedId(2000)

\* the list adapter.topk returned has pairwise distinct token ids
DistinctIds(ranking) ==
    \A a, b \in 1 .. Len(ranking) : a # b => ranking[a].token_id # ranking[b].token_id

\* C9 as stated: topk returns exactly k entries, k in [5, 30], with distinct
\* token ids, strictly descending by prob.
C9_StrictlyDescending ==
    Success =>
        LET r == locals.topk
            k == IF request.top_k < 5 THEN 5 ELSE IF request.top_k > 30 THEN 30
                 ELSE request.top_k
        IN  /\ Len(r) = k
            /\ DistinctIds(r)
            /\ \A a \in 1 .. Len(r) - 1 : FracLt(r[a + 1].prob, r[a].prob)

\* C9 as amended: topk returns exactly k entries, k in [5, 30], with distinct
\* token ids, in non-increasing order of prob; adjacent entries have equal
\* prob where the logits tie.
C9_NonIncreasing ==
    Success =>
        LET r == locals.topk
            k == IF request.top_k < 5 THEN 5 ELSE IF request.top_k > 30 THEN 30
                 ELSE request.top_k
        IN  /\ Len(r) = k
            /\ DistinctIds(r)
            /\ \A a \in 1 .. Len(r) - 1 : FracLeq(r[a + 1].prob, r[a].prob)

\* a ranking of 10 entries that descends and holds two adjacent entries of
\* equal prob
C9_Witness ==
    /\ Success
    /\ Len(locals.topk) = 10
    /\ FracLt(locals.topk[2].prob, locals.topk[1].prob)
    /\ FracEq(locals.topk[3].prob, locals.topk[2].prob)
    /\ FracLt(locals.topk[4].prob, locals.topk[3].prob)

\* C10: where tokens have equal probability, topk selects the smaller token
\* ids first and lists them earlier: a listed token precedes every token of
\* equal prob and larger id, and no unlisted token of equal prob has a smaller
\* id than a listed one.
C10_TiesByAscendingId ==
    Success =>
        LET r == locals.topk
            p == softmax(locals.logits, One)
        IN  /\ \A a, b \in 1 .. Len(r) :
                  a < b /\ FracEq(r[a].prob, r[b].prob) => r[a].token_id < r[b].token_id
            /\ \A a \in 1 .. Len(r) : \A j \in Vocab \ TokenIds(r) :
                  FracEq(p[j], r[a].prob) => r[a].token_id < j

-----------------------------------------------------------------------------
\* last_token of a successful response against the truncated context ids:
\* both fields null exactly when the sequence is empty, else its final
\* element and that element's surface text
LastTokenReported ==
    LET ids == locals.context_ids
        last_token == response.content.last_token
    IN  /\ IsNone(last_token.id) <=> ids = <<>>
        /\ IsNone(last_token.text) <=> ids = <<>>
        /\ ids # <<>> =>
              /\ last_token.id = Some(ids[Len(ids)])
              /\ last_token.text = Some(decode(ids[Len(ids)]))

\* a valid request with an empty context_text was answered by the loaded
\* adapter, no collaborator failing for another reason
EmptyContextAnswered ==
    /\ Answered
    /\ adapter = "loaded"
    /\ fault = NoFault
    /\ request.context_text = EmptyText
    /\ request.top_k >= 1

\* C11: in every successful response last_token.id and last_token.text are
\* null exactly when the truncated context id sequence is empty and are
\* otherwise its final id and that id's surface text; a request with an empty
\* context is answered with a ranking of used_top_k entries.
C11_LastTokenOfContext ==
    /\ Success => LastTokenReported
    /\ EmptyContextAnswered =>
          /\ Success
          /\ IsNone(response.content.last_token.id)
          /\ IsNone(response.content.last_token.text)
          /\ Len(response.content.topk) = Clamp(request.top_k)

-----------------------------------------------------------------------------
\* the calls answered so far, in the order they were served
AnsweredCalls == IF Pending THEN served ELSE Append(served, ThisCall)

\* two answered calls with the same request got the same response
SameRequestSameResponse ==
    \A i, j \in 1 .. Len(AnsweredCalls) :
        AnsweredCalls[i].request = AnsweredCalls[j].request
            => AnsweredCalls[i].response = AnsweredCalls[j].response

-----------------------------------------------------------------------------
\* the Tokenizer or the Scorer raised in the call that was answered
CollaboratorRaised ==
    /\ Answered
    /\ \/ fault # NoFault /\ InCalls(fault.at)
       \/ /\ InCalls("forward_last")
          /\ locals.context_ids = <<>>

\* C13: whenever the Tokenizer or the Scorer raises in a /next_dist or /step
\* call, whatever the type of the exception, the answer is an internal error:
\* status 500 with status = "error", never 400 and never a success.
C13_CollaboratorFailureIs500 ==
    CollaboratorRaised =>
        /\ response.status_code = 500
        /\ response.content.status = "error"

-----------------------------------------------------------------------------
\* make_token_display returned `label` for the argument `raw_text`
Displayed(raw_text, label) ==
    display.returned /\ display.raw_text = raw_text => display.label = label

\* C14: make_token_display of a single newline is the return symbol followed
\* by backslash and n; of a single space the space symbol; of three spaces
\* the space symbol, the times sign and 3; of U+0001 the bracketed U+0001.
C14_DisplayExamples ==
    /\ Displayed(<<10>>, <<9166, 92, 110>>)
    /\ Displayed(<<32>>, <<9248>>)
    /\ Displayed(<<32, 32, 32>>, <<9248, 215, 51>>)
    /\ Displayed(<<1>>, <<10214, 85, 43, 48, 48, 48, 49, 10215>>)

-----------------------------------------------------------------------------
(* The three ordered rules of the display label, written out *)

\* the characters with the Unicode property White_Space
UnicodeWhiteSpace ==
    (9 .. 13) \cup {32, 133, 160, 5760} \cup (8192 .. 8202)
    \cup {8232, 8233, 8239, 8287, 12288}

\* N in decimal, for N < 100
CountDigits(N) == IF N < 10 THEN <<48 + N>> ELSE <<48 + (N \div 10), 48 + (N % 10)>>

\* one hex digit, upper case
HexDigit(d) == IF d < 10 THEN 48 + d ELSE 65 + (d - 10)

\* rule 3 for one character
RuleChar(c) ==
    IF c = 10 THEN <<9166, 92, 110>>
    ELSE IF c = 9 THEN <<8677, 92, 116>>
    ELSE IF c = 13 THEN <<9229, 92, 114>>
    ELSE IF c <= 31 \/ (127 <= c /\ c <= 159)
    THEN <<10214, 85, 43, HexDigit((c \div 4096) % 16), HexDigit((c \div 256) % 16),
           HexDigit((c \div 16) % 16), HexDigit(c % 16), 10215>>
    ELSE IF c = 32 THEN <<9248>>
    ELSE <<c>>

\* the label the rules give to the string s, `whitespace` being the characters
\* that count as whitespace
RuleLabel(s, whitespace) ==
    LET n == Len(s)
        scanned[i \in 0 .. n] == IF i = 0 THEN <<>> ELSE scanned[i - 1] \o RuleChar(s[i])
    IN  IF n = 0 THEN <<>>
        ELSE IF \A i \in 1 .. n : s[i] \in whitespace
        THEN IF n = 1 /\ s[1] = 32 THEN <<9248>> ELSE <<9248, 215>> \o CountDigits(n)
        ELSE scanned[n]

-----------------------------------------------------------------------------
\* C16: in every successful /step response append_text is the raw decoded
\* string of chosen.token_id, and not its display label wherever the two
\* differ.
C16_AppendTextIsRaw ==
    StepSuccess =>
        LET raw == decode(response.content.chosen.token_id)
        IN  /\ response.content.append_text = raw
            /\ raw # make_token_display(raw) =>
                  response.content.append_text # make_token_display(raw)

\* the chosen token's surface text starts with a space, which its display
\* label shows as a symbol
C16_Witness ==
    /\ StepSuccess
    /\ Head(response.content.append_text) = 32
    /\ Val(locals.chosen).token_text_display # response.content.append_text
    /\ Head(Val(locals.chosen).token_text_display) = 9248

-----------------------------------------------------------------------------
\* C17: in stochastic selection with top_p < 1.0 the set the nucleus filter
\* keeps is never empty, holds a token of the highest probability, and holds
\* the sampled token.
C17_KeptSetHoldsTopAndSample ==
    NucleusStep =>
        LET p == ScaledProbs
            kept == KeptIds
        IN  /\ kept # {}
            /\ \E i \in kept : \A j \in Vocab : FracLeq(p[j], p[i])
            /\ response.content.chosen.token_id \in kept

\* the top token alone exceeds top_p, no prefix has a sum within top_p, and
\* the floor keeps that one token, which is sampled
C17_Witness ==
    /\ NucleusStep
    /\ response.content.chosen.token_id = HotId
    /\ KeptIds = {HotId}
    /\ FracLt(Val(request.top_p), ScaledProbs[HotId])

-----------------------------------------------------------------------------
\* a successful stochastic step with top_p = 1.0 or without top_p
UnfilteredStep ==
    /\ StepSuccess
    /\ request.mode = "stochastic"
    /\ IsNone(request.top_p) \/ request.top_p = Some(One)

\* C18: in stochastic selection with top_p = 1.0 or top_p absent the token is
\* sampled from the temperature-scaled softmax over the whole vocabulary as
\* it is: no probability is zeroed and none is rescaled.
C18_FilterIsNoOpAtOne ==
    UnfilteredStep =>
        /\ locals.probs = ScaledProbs
        /\ \A i \in Vocab : locals.probs[i].num > 0
        /\ Val(locals.chosen).prob = locals.probs[Val(locals.chosen).token_id]

\* top_p = 1.0 at temperature 1.5: a token of the smallest probability was
\* sampled
C18_Witness ==
    /\ UnfilteredStep
    /\ request.top_p = Some(One)
    /\ ~IsNone(request.temperature)
    /\ \A i \in Vocab :
          FracLeq(Val(locals.chosen).prob, locals.probs[i])
    /\ \E i \in Vocab :
          FracLt(Val(locals.chosen).prob, locals.probs[i])

-----------------------------------------------------------------------------
\* C19: choose called with a mode other than "argmax" and "stochastic" raises
\* an error and returns no token; it does not answer as one of the two
\* supported policies would.
C19_UnsupportedModeRaises ==
    chose.returned /\ chose.args.mode \notin {"argmax", "stochastic"} =>
        /\ chose.result.raised = "ValueError"
        /\ chose.result.value = <<>>

\* choose was called with the mode "beam" and raised
C19_Witness ==
    /\ chose.returned
    /\ chose.args.mode = "beam"
    /\ chose.result = Raised("ValueError")

-----------------------------------------------------------------------------
\* the prob reported for entry a is less than the one reported for entry b:
\* the exact values decide, and where they are equal, the routines that
\* rounded them
FloatLt(a, b) ==
    \/ FracLt(a.prob, b.prob)
    \/ /\ FracEq(a.prob, b.prob)
       /\ \/ /\ a.prob_exp = "math.exp" /\ b.prob_exp = "torch.exp"
             /\ torch_ties.exp = "above"
          \/ /\ a.prob_exp = "torch.exp" /\ b.prob_exp = "math.exp"
             /\ torch_ties.exp = "below"

FloatLeq(a, b) == ~FloatLt(b, a)

\* C20: in every successful /step response in argmax mode the ranking is in
\* non-increasing order of prob, and the entry with the chosen token's id has
\* the maximum prob of the ranking, also when several tokens tie for the
\* maximum.
C20_ArgmaxRankingSortedChosenMax ==
    StepSuccess /\ request.mode = "argmax" =>
        LET r == response.content.topk
            chosen == response.content.chosen
        IN  /\ \A a \in 1 .. Len(r) - 1 : FloatLeq(r[a + 1], r[a])
            /\ \A i \in 1 .. Len(r) :
                  r[i].token_id = chosen.token_id =>
                      \A j \in 1 .. Len(r) : FloatLeq(r[j], r[i])

\* the same with the probs compared as exact values
C20_InExactArithmetic ==
    StepSuccess /\ request.mode = "argmax" =>
        LET r == response.content.topk
            chosen == response.content.chosen
        IN  /\ \A a \in 1 .. Len(r) - 1 : FracLeq(r[a + 1].prob, r[a].prob)
            /\ \A i \in 1 .. Len(r) :
                  r[i].token_id = chosen.token_id =>
                      \A j \in 1 .. Len(r) : FracLeq(r[j].prob, r[i].prob)

-----------------------------------------------------------------------------
\* C21: the merge of /step changes the ranking only when the chosen token id
\* is absent from the list adapter.topk returned. Then the returned ranking is
\* the chosen entry followed by the first k-1 entries of that list in their
\* order, the dropped last entry being one of lowest prob; when the chosen
\* token id is present the list is returned as it was.
C21_MergePrependsAndDropsLast ==
    StepSuccess =>
        LET pre == locals.topk
            chosen == Val(locals.chosen)
            r == response.content.topk
            k == Len(pre)
        IN  /\ Len(r) = k
            /\ IF chosen.token_id \in TokenIds(pre)
               THEN \A i \in 1 .. k : r[i] = TokenInfoModel(pre[i])
               ELSE /\ r[1] = TokenInfoModel(chosen)
                    /\ \A i \in 2 .. k : r[i] = TokenInfoModel(pre[i - 1])
                    /\ \A i \in 1 .. k : FracLeq(pre[k].prob, pre[i].prob)

\* the merge fired on a list whose entries do not all have the same prob, and
\* the chosen token has less prob than the entry after it
C21_Witness ==
    /\ MergeFired
    /\ LET r == response.content.topk
       IN  /\ FracLt(r[1].prob, r[2].prob)
           /\ FracLt(r[Len(r)].prob, r[2].prob)

-----------------------------------------------------------------------------
\* the logits forward_last returned to the handler of this call
ForwardedLogits == locals.logits

\* C22: with soften_newline_eot enabled forward_last returns the Scorer's
\* logits with the one at the newline id and the one at the end-of-text id
\* each lower by exactly 2 and every other logit as it was, an undefined id
\* being skipped; with it disabled, and in every /next_dist call, the logits
\* returned are the Scorer's at every index.
C22_SoftenLowersTwoLogitsByTwo ==
    /\ biased.returned =>
           LET lowered ==
                   IF biased.soften_newline_eot
                   THEN {i \in Vocab : Some(i) \in {biased.newline_id, biased.eos_id}}
                   ELSE {}
           IN  \A i \in Vocab :
                   biased.logits[i] = IF i \in lowered THEN scorer[i] - 2 ELSE scorer[i]
    /\ Answered /\ ForwardedLogits # <<>> =>
           LET lowered ==
                   IF request.endpoint = "step" /\ request.soften_newline_eot
                   THEN {NewlineId, EosId}
                   ELSE {}
           IN  \A i \in Vocab :
                   ForwardedLogits[i] = IF i \in lowered THEN scorer[i] - 2 ELSE scorer[i]

\* the bias ran with the newline id undefined and lowered the end-of-text
\* logit alone, and a /step call with the flag set was answered from logits
\* lowered at both ids
C22_Witness ==
    /\ biased.returned
    /\ biased.soften_newline_eot
    /\ biased.newline_id = None
    /\ biased.logits[EosId] = scorer[EosId] - 2
    /\ biased.logits[NewlineId] = scorer[NewlineId]
    /\ StepSuccess
    /\ request.soften_newline_eot
    /\ ForwardedLogits[NewlineId] = scorer[NewlineId] - 2
    /\ ForwardedLogits[EosId] = scorer[EosId] - 2

-----------------------------------------------------------------------------
\* the adapter methods of one call of step, in the order of the handler;
\* next_dist stops after topk
PipelineCalls == <<"tokenize", "forward_last", "topk", "choose">>

IsPrefix(s, t) == Len(s) <= Len(t) /\ SubSeq(t, 1, Len(s)) = s

Invocations(method) == Cardinality({i \in 1 .. Len(calls) : calls[i] = method})

\* an answered call went through the pipeline in order, stopped where a stage
\* failed, and computed merge and coverage last
OrderedPass ==
    Answered =>
        /\ IsPrefix(calls, IF request.endpoint = "step" THEN PipelineCalls
                           ELSE SubSeq(PipelineCalls, 1, 3))
        /\ Invocations("forward_last") <= 1
        /\ response.status_code = 422 => calls = <<>>
        /\ ~Success /\ InCalls("forward_last") /\ ~InCalls("topk")
               => calls = <<"tokenize", "forward_last">>
        /\ Success => /\ calls = IF request.endpoint = "step" THEN PipelineCalls
                                 ELSE SubSeq(PipelineCalls, 1, 3)
                      /\ response.content.coverage_topk = SumProb(response.content.topk)
        /\ StepSuccess =>
               \E i \in 1 .. Len(response.content.topk) :
                   response.content.topk[i].token_id = response.content.chosen.token_id

\* C23: within one call the pipeline runs in the order validate, tokenize,
\* score, rank, select, merge, coverage; forward_last is invoked at most once
\* and not again after it failed; and every call ends with one response, which
\* nothing replaces.
C23_OnePassOneResponse ==
    /\ []OrderedPass
    /\ [][Pending => Answered']_vars
    /\ [][~Pending => response' = response]_vars
    /\ <>Answered

\* forward_last raised in a call: it was invoked once and the call was
\* answered with an error
C23_Witness ==
    /\ Answered
    /\ fault.at = "forward_last"
    /\ calls = <<"tokenize", "forward_last">>
    /\ response.status_code >= 400

-----------------------------------------------------------------------------
\* C24: the ranking a successful /step returns never holds two entries with
\* the same token id, whether or not the merge prepended the chosen token, in
\* argmax and in stochastic mode.
C24_RankingIdsDistinct ==
    StepSuccess =>
        LET r == response.content.topk
        IN  \A a, b \in 1 .. Len(r) : a # b => r[a].token_id # r[b].token_id

\* a stochastic /step whose chosen token was further down the list
\* adapter.topk returned: the merge left the list alone
C24_Witness ==
    /\ StepSuccess
    /\ request.mode = "stochastic"
    /\ ~MergeFired
    /\ response.content.topk[1].token_id # response.content.chosen.token_id
    /\ Cardinality(TokenIds(response.content.topk)) = Len(response.content.topk)

\* the merge prepended a stochastically chosen token
C24_MergedWitness ==
    /\ MergeFired
    /\ request.mode = "stochastic"
    /\ Cardinality(TokenIds(response.content.topk)) = Len(response.content.topk)

-----------------------------------------------------------------------------
\* the request is valid in every field but possibly top_k
ValidBesidesTopK ==
    IF request.endpoint = "step"
    THEN StepRequestModel([request EXCEPT !.top_k = 1])
    ELSE NextDistRequestModel([request EXCEPT !.top_k = 1])

\* what /step holds after adapter.topk for this context and top_k, bias off
StepPreMerge ==
    handler_front(Request("step", request.context_text, request.top_k, "argmax",
                          None, None, FALSE),
                  FALSE, torch_ties.topk, "IndexError")

\* C25: /next_dist and /step treat top_k alike: every top_k >= 1, also above
\* 1000, is accepted by both and clamped into [5, 30], and for the same
\* context and top_k with bias off /next_dist returns the ranking /step has
\* before its merge.
C25_TopKTreatedAlike ==
    /\ Answered /\ request.top_k >= 1 /\ ValidBesidesTopK =>
           response.status_code # 422
    /\ Success =>
           /\ Len(response.content.topk) = Max2(5, Min2(30, request.top_k))
           /\ request.endpoint = "next_dist" =>
                  LET front == StepPreMerge
                  IN  /\ ~front.done
                      /\ Len(response.content.topk) = Len(front.ranking)
                      /\ \A i \in 1 .. Len(front.ranking) :
                             response.content.topk[i] = TokenInfoModel(front.ranking[i])

=============================================================================
